---- MODULE Spec2Model ----
(***************************************************************************)
(* A model of the html_tag crate: TagType (src/src/tags.rs) with its       *)
(* from / html conversions and its Ord implementation, and HtmlTag         *)
(* (src/src/html.rs) with its mutators and to_html.                        *)
(*                                                                         *)
(* Strings are sequences of one-character strings, so that lower-casing,   *)
(* concatenation and joining are computed and not assumed.                 *)
(***************************************************************************)
EXTENDS Integers, Sequences, FiniteSets, TLC

VARIABLES
    elem,   \* the HtmlTag under construction
    made,   \* the TagType elem was constructed with
    ret,    \* the String returned by the latest to_html, empty once elem changed
    name,   \* the &str handed to TagType::from
    tag,    \* the TagType returned by TagType::from
    out,    \* the String returned by TagType::html
    lhs,    \* self of TagType::cmp
    rhs,    \* other of TagType::cmp
    ord,    \* cmp(lhs, rhs)
    rev,    \* cmp(rhs, lhs)
    tags,   \* the Vec<TagType> of the ordering test
    swaps,  \* how many transpositions arranged tags before the sort
    sheet,  \* the StyleSheet: selector -> (property -> value)
    written,\* per selector and property, the value of the latest write
    css,    \* the String returned by get_style_sheet
    pc      \* position of the running scenario

vars == <<elem, made, ret, name, tag, out, lhs, rhs, ord, rev, tags, swaps, sheet, written, css, pc>>

----------------------------------------------------------------------------
(* Bounds *)

MaxNameLen == 2
MaxCustomLen == 1
MaxShuffle == 2
MaxClasses == 2
MaxAttrs == 2
MaxChildren == 2

----------------------------------------------------------------------------
(* Strings *)

RECURSIVE StringsUpTo(_, _)
StringsUpTo(alphabet, n) ==
    IF n = 0 THEN {<<>>}
    ELSE LET shorter == StringsUpTo(alphabet, n - 1)
         IN  shorter \cup {Append(s, c) : s \in shorter, c \in alphabet}

ToLower(c) ==
    CASE c = "A" -> "a" [] c = "B" -> "b" [] c = "C" -> "c" [] c = "D" -> "d"
      [] c = "E" -> "e" [] c = "G" -> "g" [] c = "H" -> "h" [] c = "I" -> "i"
      [] c = "L" -> "l" [] c = "M" -> "m" [] c = "N" -> "n" [] c = "O" -> "o"
      [] c = "P" -> "p" [] c = "R" -> "r" [] c = "S" -> "s" [] c = "T" -> "t"
      [] c = "U" -> "u" [] c = "V" -> "v" [] c = "X" -> "x" [] c = "Y" -> "y"
      [] OTHER -> c

ToUpper(c) ==
    CASE c = "a" -> "A" [] c = "b" -> "B" [] c = "c" -> "C" [] c = "d" -> "D"
      [] c = "e" -> "E" [] c = "g" -> "G" [] c = "h" -> "H" [] c = "i" -> "I"
      [] c = "l" -> "L" [] c = "m" -> "M" [] c = "n" -> "N" [] c = "o" -> "O"
      [] c = "p" -> "P" [] c = "r" -> "R" [] c = "s" -> "S" [] c = "t" -> "T"
      [] c = "u" -> "U" [] c = "v" -> "V" [] c = "x" -> "X" [] c = "y" -> "Y"
      [] OTHER -> c

to_lowercase(s) == [i \in 1..Len(s) |-> ToLower(s[i])]

RECURSIVE CaseVariants(_)
CaseVariants(s) ==
    IF s = <<>> THEN {<<>>}
    ELSE {<<c>> \o r : c \in {Head(s), ToUpper(Head(s))}, r \in CaseVariants(Tail(s))}

----------------------------------------------------------------------------
(* TagType *)

KnownKinds ==
    {"P", "Div", "Span", "A", "H1", "H2", "H3", "H4", "H5", "H6", "Img",
     "Table", "Tr", "Td", "Th"}

Known(k) == [kind |-> k, name |-> <<>>]

Custom(n) == [kind |-> "Custom", name |-> n]

CustomNames == StringsUpTo({"x", "y"}, MaxCustomLen) \ {<<>>}

TagType == {Known(k) : k \in KnownKinds} \cup {Custom(n) : n \in CustomNames}

from_match(t) ==
    CASE t = <<"p">> -> Known("P")
      [] t = <<"d", "i", "v">> -> Known("Div")
      [] t = <<"s", "p", "a", "n">> -> Known("Span")
      [] t = <<"a">> -> Known("A")
      [] t = <<"h", "1">> -> Known("H1")
      [] t = <<"h", "2">> -> Known("H2")
      [] t = <<"h", "3">> -> Known("H3")
      [] t = <<"h", "4">> -> Known("H4")
      [] t = <<"h", "5">> -> Known("H5")
      [] t = <<"h", "6">> -> Known("H6")
      [] t = <<"i", "m", "g">> -> Known("Img")
      [] t = <<"t", "a", "b", "l", "e">> -> Known("Table")
      [] t = <<"t", "r">> -> Known("Tr")
      [] t = <<"t", "d">> -> Known("Td")
      [] t = <<"t", "h">> -> Known("Th")
      [] OTHER -> Custom(t)

from_nolower(t) == from_match(t)

from(t) == from_match(to_lowercase(t))

html(t) ==
    CASE t.kind = "P" -> <<"p">>
      [] t.kind = "Div" -> <<"d", "i", "v">>
      [] t.kind = "Span" -> <<"s", "p", "a", "n">>
      [] t.kind = "A" -> <<"a">>
      [] t.kind = "H1" -> <<"h", "1">>
      [] t.kind = "H2" -> <<"h", "2">>
      [] t.kind = "H3" -> <<"h", "3">>
      [] t.kind = "H4" -> <<"h", "4">>
      [] t.kind = "H5" -> <<"h", "5">>
      [] t.kind = "H6" -> <<"h", "6">>
      [] t.kind = "Img" -> <<"i", "m", "g">>
      [] t.kind = "Custom" -> t.name
      [] t.kind = "Table" -> <<"t", "a", "b", "l", "e">>
      [] t.kind = "Tr" -> <<"t", "r">>
      [] t.kind = "Td" -> <<"t", "d">>
      [] t.kind = "Th" -> <<"t", "h">>

Arm(side, kind, result) == [side |-> side, kind |-> kind, result |-> result]

Pair(kind) == <<Arm("self", kind, "Greater"), Arm("other", kind, "Less")>>

UpperArms ==
    Pair("Div") \o Pair("H1") \o Pair("H2") \o Pair("H3") \o Pair("H4")
        \o Pair("H5") \o Pair("H6")

LowerArms ==
    <<Arm("self", "P", "Less"), Arm("other", "P", "Greater"),
      Arm("self", "Span", "Less"), Arm("other", "Span", "Greater"),
      Arm("self", "A", "Less")>>

CmpArms == UpperArms \o Pair("Img") \o Pair("Custom") \o LowerArms

RECURSIVE match_arms(_, _, _)
match_arms(self, other, arms) ==
    IF arms = <<>> THEN "Equal"
    ELSE LET arm == Head(arms)
             scrutinee == IF arm.side = "self" THEN self ELSE other
         IN  IF scrutinee.kind = arm.kind THEN arm.result
             ELSE match_arms(self, other, Tail(arms))

cmp_tie(self, other) ==
    match_arms(self, other, UpperArms \o Pair("Img") \o Pair("Custom"))

cmp_custom_first(self, other) ==
    match_arms(self, other, UpperArms \o Pair("Custom") \o Pair("Img") \o LowerArms)

cmp_no_span(self, other) ==
    match_arms(self, other,
               UpperArms \o Pair("Img") \o Pair("Custom")
                   \o SubSeq(LowerArms, 1, 3) \o SubSeq(LowerArms, 5, 5))

cmp(self, other) == match_arms(self, other, CmpArms)

lt(a, b) == cmp(a, b) = "Less"

----------------------------------------------------------------------------
(* HtmlTag *)

None == [some |-> FALSE, val |-> <<>>]

Some(v) == [some |-> TRUE, val |-> v]

K_class == <<"c", "l", "a", "s", "s">>

K_id == <<"i", "d">>

K_style == <<"s", "t", "y", "l", "e">>

K_href == <<"h", "r", "e", "f">>

new(tag_type) ==
    [tag_type |-> from(tag_type), class_names |-> <<>>, id |-> None,
     body |-> None, children |-> None, custom_attributes |-> None]

fresh(tag_type, body, class_names) ==
    [tag_type |-> tag_type, class_names |-> class_names, id |-> None,
     body |-> body, children |-> None, custom_attributes |-> None]

add_child_front(self, child) ==
    IF self.children.some
    THEN [self EXCEPT !.children = Some(<<child>> \o self.children.val)]
    ELSE [self EXCEPT !.children = Some(<<child>>)]

add_child(self, child) ==
    IF self.children.some
    THEN [self EXCEPT !.children = Some(Append(self.children.val, child))]
    ELSE [self EXCEPT !.children = Some(<<child>>)]

add_class(self, class_name) ==
    [self EXCEPT !.class_names = Append(self.class_names, class_name)]

set_body_retag(self, body) == [self EXCEPT !.body = Some(body), !.tag_type = from(body)]

set_body(self, body) == [self EXCEPT !.body = Some(body)]

set_id(self, id) == [self EXCEPT !.id = Some(id)]

add_custom_attribute_dedup(self, key, value) ==
    IF self.custom_attributes.some
    THEN [self EXCEPT !.custom_attributes =
             Some(Append(SelectSeq(self.custom_attributes.val, LAMBDA kv : kv[1] # key),
                         <<key, value>>))]
    ELSE [self EXCEPT !.custom_attributes = Some(<<<<key, value>>>>)]

add_custom_attribute(self, key, value) ==
    IF self.custom_attributes.some
    THEN [self EXCEPT !.custom_attributes =
             Some(Append(self.custom_attributes.val, <<key, value>>))]
    ELSE [self EXCEPT !.custom_attributes = Some(<<<<key, value>>>>)]

add_attribute_no_id(self, key, value) ==
    IF key = K_class THEN add_class(self, value)
    ELSE add_custom_attribute(self, key, value)

add_attribute(self, key, value) ==
    IF key = K_class THEN add_class(self, value)
    ELSE IF key = K_id THEN set_id(self, value)
    ELSE add_custom_attribute(self, key, value)

set_style(self, style) == add_attribute(self, K_style, style)

set_href(self, href) == add_attribute(self, K_href, href)

add_custom_extend(self, attributes) ==
    [self EXCEPT !.custom_attributes = Some(self.custom_attributes.val \o attributes)]

add_custom(self, attributes) ==
    [self EXCEPT !.custom_attributes = Some(attributes)]

get_tags(tag_type) ==
    <<<<"<">> \o html(tag_type), <<"<", "/">> \o html(tag_type) \o <<">">>>>

RECURSIVE join(_, _)
join(strings, sep) ==
    IF strings = <<>> THEN <<>>
    ELSE IF Len(strings) = 1 THEN strings[1]
    ELSE strings[1] \o sep \o join(Tail(strings), sep)

RECURSIVE push_attributes(_, _)
push_attributes(html_to_return, custom_attributes) ==
    IF custom_attributes = <<>> THEN html_to_return
    ELSE push_attributes(
             html_to_return \o <<" ">> \o Head(custom_attributes)[1] \o <<"=", "\"">>
                 \o Head(custom_attributes)[2] \o <<"\"">>,
             Tail(custom_attributes))

push_id(html_to_return, self) ==
    IF self.id.some
    THEN html_to_return \o <<" ", "i", "d", "=", "\"">> \o self.id.val \o <<"\"">>
    ELSE html_to_return

push_class(html_to_return, self) ==
    IF self.class_names # <<>>
    THEN html_to_return \o <<" ", "c", "l", "a", "s", "s", "=", "\"">>
             \o join(self.class_names, <<" ">>) \o <<"\"">>
    ELSE html_to_return

partial_convert_class_first(self) ==
    push_attributes(push_id(push_class(get_tags(self.tag_type)[1], self), self),
                    IF self.custom_attributes.some THEN self.custom_attributes.val ELSE <<>>)

partial_convert(self) ==
    push_attributes(push_class(push_id(get_tags(self.tag_type)[1], self), self),
                    IF self.custom_attributes.some THEN self.custom_attributes.val ELSE <<>>)

RECURSIVE to_html(_)
RECURSIVE push_children(_, _)
push_children(html_so_far, children) ==
    IF children = <<>> THEN html_so_far
    ELSE push_children(html_so_far \o to_html(Head(children)), Tail(children))

to_html_no_return(self) ==
    LET opened == IF self.body.some
                  THEN partial_convert(self) \o <<">">> \o self.body.val
                  ELSE partial_convert(self) \o <<">">>
    IN  push_children(opened, IF self.children.some THEN self.children.val ELSE <<>>)
            \o get_tags(self.tag_type)[2]

to_html(self) ==
    IF self.body.some
    THEN partial_convert(self) \o <<">">> \o self.body.val
             \o <<"<", "/">> \o html(self.tag_type) \o <<">">>
    ELSE push_children(partial_convert(self) \o <<">">>,
                       IF self.children.some THEN self.children.val ELSE <<>>)
             \o get_tags(self.tag_type)[2]

----------------------------------------------------------------------------
(* StyleSheet: a BTreeMap from selector to a BTreeMap from property to value. *)
(* A BTreeMap is the sequence of its <<key, value>> entries in the order its  *)
(* iterator yields them; insert finds the key's place by comparing strings.   *)

Code(c) ==
    CASE c = " " -> 32 [] c = "." -> 46 [] c = "1" -> 49 [] c = "a" -> 97
      [] c = "b" -> 98 [] c = "h" -> 104 [] c = "w" -> 119 [] c = "x" -> 120
      [] c = "y" -> 121

RECURSIVE str_lt(_, _)
str_lt(a, b) ==
    IF b = <<>> THEN FALSE
    ELSE IF a = <<>> THEN TRUE
    ELSE IF Code(Head(a)) # Code(Head(b)) THEN Code(Head(a)) < Code(Head(b))
    ELSE str_lt(Tail(a), Tail(b))

RECURSIVE btree_insert_push(_, _, _)
btree_insert_push(map, key, value) ==
    IF map = <<>> THEN <<<<key, value>>>>
    ELSE IF Head(map)[1] = key THEN <<<<key, value>>>> \o Tail(map)
    ELSE <<Head(map)>> \o btree_insert_push(Tail(map), key, value)

RECURSIVE btree_insert(_, _, _)
btree_insert(map, key, value) ==
    IF map = <<>> THEN <<<<key, value>>>>
    ELSE IF Head(map)[1] = key THEN <<<<key, value>>>> \o Tail(map)
    ELSE IF str_lt(key, Head(map)[1]) THEN <<<<key, value>>>> \o map
    ELSE <<Head(map)>> \o btree_insert(Tail(map), key, value)

contains_key(map, key) == \E i \in 1..Len(map) : map[i][1] = key

get(map, key) == map[CHOOSE i \in 1..Len(map) : map[i][1] = key][2]

RECURSIVE insert_each(_, _)
insert_each(current_properties, properties) ==
    IF properties = <<>> THEN current_properties
    ELSE insert_each(btree_insert(current_properties, Head(properties)[1], Head(properties)[2]),
                     Tail(properties))

style_new == <<>>

add_style(self, selector, property, value) ==
    IF contains_key(self, selector)
    THEN btree_insert(self, selector, btree_insert(get(self, selector), property, value))
    ELSE btree_insert(self, selector, btree_insert(<<>>, property, value))

style_add_class(self, selector, properties) ==
    IF contains_key(self, selector)
    THEN btree_insert(self, selector, insert_each(get(self, selector), properties))
    ELSE btree_insert(self, selector, properties)

RECURSIVE push_properties(_, _)
push_properties(final_styles, properties) ==
    IF properties = <<>> THEN final_styles
    ELSE push_properties(
             final_styles \o <<" ", " ", " ", " ">> \o Head(properties)[1] \o <<":", " ">>
                 \o Head(properties)[2] \o <<";", "\n">>,
             Tail(properties))

RECURSIVE push_selectors(_, _)
push_selectors(final_styles, entries) ==
    IF entries = <<>> THEN final_styles
    ELSE push_selectors(
             push_properties(final_styles \o Head(entries)[1] \o <<" ", "{", "\n">>,
                             Head(entries)[2])
                 \o <<"}", "\n">>,
             Tail(entries))

get_style_sheet(self) == push_selectors(<<>>, self)

Selectors == {<<".", "w">>, <<"h", "1">>, <<"h">>}

Properties == {<<"b">>, <<"a", "b">>}

NoWrites == [selector \in Selectors |-> None]

IdleStyle == sheet = style_new /\ written = NoWrites /\ css = <<>>

----------------------------------------------------------------------------
(* Values the variables of a scenario hold while another scenario runs *)

NoTag == Known("P")

NoElement == new(<<"p">>)

IdleElement == elem = NoElement /\ made = NoTag /\ ret = <<>>

IdleName == name = <<>> /\ tag = NoTag /\ out = <<>>

IdleCmp == lhs = NoTag /\ rhs = NoTag /\ ord = "Equal" /\ rev = "Equal"

IdleSort == tags = <<>> /\ swaps = 0

----------------------------------------------------------------------------
(* Building one HtmlTag with its mutators and rendering it *)

Values == {<<"x">>, <<"y">>}

Bodies == {<<>>, <<"h", "i">>}

AttrKeys == {K_class, K_id, K_style}

Hrefs == {<<"x">>}

CustomPairs == {<<K_id, <<"y">>>>}

AttrLists == StringsUpTo(CustomPairs, MaxAttrs)

ChildP == set_body(new(<<"p">>), <<"h", "w">>)

ChildSpan == add_child(new(<<"S", "p", "a", "n">>), ChildP)

ChildElements == {ChildP, ChildSpan}

OtherVars == <<made, name, tag, out, lhs, rhs, ord, rev, tags, swaps, sheet, written, css>>

Init ==
    /\ \/ elem = new(<<"D", "I", "V">>) /\ made = Known("Div")
       \/ elem = fresh(Known("A"), Some(<<"h", "i">>), <<<<"x">>>>) /\ made = Known("A")
    /\ ret = <<>>
    /\ pc = "built"
    /\ IdleName /\ IdleCmp /\ IdleSort /\ IdleStyle

Mutated == ret' = <<>> /\ pc' = "built" /\ UNCHANGED OtherVars

AttrCount(self) == IF self.custom_attributes.some THEN Len(self.custom_attributes.val) ELSE 0

ChildCount(self) == IF self.children.some THEN Len(self.children.val) ELSE 0

Fits(self) ==
    /\ Len(self.class_names) <= MaxClasses
    /\ AttrCount(self) <= MaxAttrs
    /\ ChildCount(self) <= MaxChildren

AddChild(child) ==
    /\ Fits(add_child(elem, child))
    /\ elem' = add_child(elem, child)
    /\ Mutated

AddClass(class_name) ==
    /\ Fits(add_class(elem, class_name))
    /\ elem' = add_class(elem, class_name)
    /\ Mutated

SetBody(body) ==
    /\ elem' = set_body(elem, body)
    /\ Mutated

SetId(id) ==
    /\ elem' = set_id(elem, id)
    /\ Mutated

SetStyle(style) ==
    /\ Fits(set_style(elem, style))
    /\ elem' = set_style(elem, style)
    /\ Mutated

SetHref(href) ==
    /\ Fits(set_href(elem, href))
    /\ elem' = set_href(elem, href)
    /\ Mutated

AddAttribute(key, value) ==
    /\ Fits(add_attribute(elem, key, value))
    /\ elem' = add_attribute(elem, key, value)
    /\ Mutated

AddCustom(attributes) ==
    /\ Fits(add_custom(elem, attributes))
    /\ elem' = add_custom(elem, attributes)
    /\ Mutated

ToHtml ==
    /\ ret' = to_html(elem)
    /\ pc' = "rendered"
    /\ UNCHANGED elem
    /\ UNCHANGED OtherVars

Next ==
    \/ \E child \in ChildElements : AddChild(child)
    \/ \E class_name \in Values : AddClass(class_name)
    \/ \E body \in Bodies : SetBody(body)
    \/ \E id \in Values : SetId(id)
    \/ \E style \in Values : SetStyle(style)
    \/ \E href \in Hrefs : SetHref(href)
    \/ \E key \in AttrKeys, value \in Values : AddAttribute(key, value)
    \/ \E attributes \in AttrLists : AddCustom(attributes)
    \/ ToHtml

Spec == Init /\ [][Next]_vars

----------------------------------------------------------------------------
(* TagType::from followed by TagType::html, on bounded tag-name strings *)

NameAlphabet == {"p", "P", "a", "A", "t", "T", "d", "D", "h", "H", "r", "R", "1", "6", "-"}

KnownNames ==
    {<<"p">>, <<"d", "i", "v">>, <<"s", "p", "a", "n">>, <<"a">>,
     <<"h", "1">>, <<"h", "2">>, <<"h", "3">>, <<"h", "4">>, <<"h", "5">>,
     <<"h", "6">>, <<"i", "m", "g">>, <<"t", "a", "b", "l", "e">>,
     <<"t", "r">>, <<"t", "d">>, <<"t", "h">>}

UnknownNames == {<<"c", "u", "s", "t", "o", "m">>, <<"d", "i", "v", "s">>, <<"u", "l">>}

NameInputs ==
    StringsUpTo(NameAlphabet, MaxNameLen)
        \cup UNION {CaseVariants(s) : s \in KnownNames \cup UnknownNames}

InitName ==
    /\ name \in NameInputs
    /\ tag = NoTag
    /\ out = <<>>
    /\ pc = "name"
    /\ IdleElement /\ IdleCmp /\ IdleSort /\ IdleStyle

From ==
    /\ pc = "name"
    /\ tag' = from(name)
    /\ pc' = "from"
    /\ UNCHANGED <<sheet, written, css, made, elem, ret, name, out, lhs, rhs, ord, rev, tags, swaps>>

Html ==
    /\ pc = "from"
    /\ out' = html(tag)
    /\ pc' = "html"
    /\ UNCHANGED <<sheet, written, css, made, elem, ret, name, tag, lhs, rhs, ord, rev, tags, swaps>>

NextName == From \/ Html

SpecName == InitName /\ [][NextName]_vars

----------------------------------------------------------------------------
(* TagType::cmp on every pair of tags, in both directions *)

InitCmp ==
    /\ lhs \in TagType
    /\ rhs \in TagType
    /\ ord = "Equal"
    /\ rev = "Equal"
    /\ pc = "pair"
    /\ IdleElement /\ IdleName /\ IdleSort /\ IdleStyle

Cmp ==
    /\ pc = "pair"
    /\ ord' = cmp(lhs, rhs)
    /\ rev' = cmp(rhs, lhs)
    /\ pc' = "compared"
    /\ UNCHANGED <<sheet, written, css, made, elem, ret, name, tag, out, lhs, rhs, tags, swaps>>

NextCmp == Cmp

SpecCmp == InitCmp /\ [][NextCmp]_vars

----------------------------------------------------------------------------
(* Vec<TagType>::sort and reverse, as the doc example and ordering_test use them *)

DocTags == <<Known("P"), Known("Div"), Known("Span"), Known("A")>>

TestTags(n) ==
    <<Known("P"), Known("Div"), Known("Span"), Known("A"), Known("H1"),
      Known("H2"), Known("H3"), Known("H4"), Known("H5"), Known("H6"),
      Known("Img"), Custom(n)>>

Permutation(s, p) == [i \in 1..Len(s) |-> s[p[i]]]

Arrangements(s) ==
    {Permutation(s, p) : p \in {q \in [1..Len(s) -> 1..Len(s)] :
                                  \A i, j \in 1..Len(s) : q[i] = q[j] => i = j}}

Swap(s, a, b) == [s EXCEPT ![a] = s[b], ![b] = s[a]]

RECURSIVE insert_tail(_, _)
insert_tail(sorted, x) ==
    IF sorted = <<>> \/ ~lt(x, sorted[Len(sorted)])
    THEN Append(sorted, x)
    ELSE Append(insert_tail(SubSeq(sorted, 1, Len(sorted) - 1), x), sorted[Len(sorted)])

RECURSIVE insertion_sort(_, _)
insertion_sort(v, n) ==
    IF n = 0 THEN <<>> ELSE insert_tail(insertion_sort(v, n - 1), v[n])

sort(v) == insertion_sort(v, Len(v))

reverse(v) == [i \in 1..Len(v) |-> v[Len(v) + 1 - i]]

InitSort ==
    /\ tags \in Arrangements(DocTags) \cup {TestTags(n) : n \in CustomNames}
    /\ swaps = 0
    /\ pc = "arrange"
    /\ IdleElement /\ IdleName /\ IdleCmp /\ IdleStyle

Arrange ==
    /\ pc = "arrange"
    /\ swaps < MaxShuffle
    /\ \E a, b \in 1..Len(tags) :
          /\ a < b
          /\ tags' = Swap(tags, a, b)
    /\ swaps' = swaps + 1
    /\ UNCHANGED <<sheet, written, css, made, elem, ret, name, tag, out, lhs, rhs, ord, rev, pc>>

Sort ==
    /\ pc = "arrange"
    /\ tags' = sort(tags)
    /\ pc' = "sorted"
    /\ UNCHANGED <<sheet, written, css, made, elem, ret, name, tag, out, lhs, rhs, ord, rev, swaps>>

Reverse ==
    /\ pc = "sorted"
    /\ tags' = reverse(tags)
    /\ pc' = "reversed"
    /\ UNCHANGED <<sheet, written, css, made, elem, ret, name, tag, out, lhs, rhs, ord, rev, swaps>>

NextSort == Arrange \/ Sort \/ Reverse

SpecSort == InitSort /\ [][NextSort]_vars

----------------------------------------------------------------------------
(* Filling a StyleSheet with add_style and add_class and rendering it *)

RECURSIVE MapOf(_, _)
MapOf(keys, f) ==
    IF keys = {} THEN <<>>
    ELSE LET key == CHOOSE k \in keys : TRUE
         IN  IF f[key].some
             THEN btree_insert(MapOf(keys \ {key}, f), key, f[key].val)
             ELSE MapOf(keys \ {key}, f)

Classes == {MapOf(Properties, f) : f \in [Properties -> {None} \cup {Some(v) : v \in Values}]}

Latest(selector) ==
    IF written[selector].some THEN written[selector].val ELSE [p \in Properties |-> None]

InitStyle ==
    /\ sheet = style_new
    /\ written = NoWrites
    /\ css = <<>>
    /\ pc = "styling"
    /\ IdleElement /\ IdleName /\ IdleCmp /\ IdleSort

StyleUnchanged == UNCHANGED <<elem, made, ret, name, tag, out, lhs, rhs, ord, rev, tags, swaps>>

AddStyle(selector, property, value) ==
    /\ sheet' = add_style(sheet, selector, property, value)
    /\ written' = [written EXCEPT
                      ![selector] = Some([Latest(selector) EXCEPT ![property] = Some(value)])]
    /\ css' = <<>>
    /\ pc' = "styling"
    /\ StyleUnchanged

StyleAddClass(selector, properties) ==
    /\ sheet' = style_add_class(sheet, selector, properties)
    /\ written' = [written EXCEPT
                      ![selector] =
                          Some([p \in Properties |->
                                   IF contains_key(properties, p)
                                   THEN Some(get(properties, p))
                                   ELSE Latest(selector)[p]])]
    /\ css' = <<>>
    /\ pc' = "styling"
    /\ StyleUnchanged

GetStyleSheet ==
    /\ css' = get_style_sheet(sheet)
    /\ pc' = "styled"
    /\ UNCHANGED <<sheet, written>>
    /\ StyleUnchanged

NextStyle ==
    \/ \E selector \in Selectors, property \in Properties, value \in Values :
          AddStyle(selector, property, value)
    \/ \E selector \in Selectors, properties \in Classes :
          StyleAddClass(selector, properties)
    \/ GetStyleSheet

SpecStyle == InitStyle /\ [][NextStyle]_vars

----------------------------------------------------------------------------
(* Properties of HtmlTag *)

Contains(s, sub) ==
    \E i \in 1..(Len(s) - Len(sub) + 1) : SubSeq(s, i, i + Len(sub) - 1) = sub

Occurrences(s, sub) ==
    Cardinality({i \in 1..(Len(s) - Len(sub) + 1) : SubSeq(s, i, i + Len(sub) - 1) = sub})

EndsWith(s, suffix) ==
    /\ Len(suffix) <= Len(s)
    /\ SubSeq(s, Len(s) - Len(suffix) + 1, Len(s)) = suffix

\* The rendered text up to and including the first '>' (no modelled tag name,
\* key or value holds a '>').
OpeningTag(s) ==
    LET close == CHOOSE i \in 1..Len(s) : s[i] = ">" /\ \A j \in 1..(i - 1) : s[j] # ">"
    IN  SubSeq(s, 1, close)

Attr(key, value) == <<" ">> \o key \o <<"=", "\"">> \o value \o <<"\"">>

RECURSIVE Flatten(_)
Flatten(strings) ==
    IF strings = <<>> THEN <<>> ELSE Head(strings) \o Flatten(Tail(strings))

RECURSIVE SpaceJoined(_)
SpaceJoined(names) ==
    IF Len(names) = 1 THEN names[1]
    ELSE SpaceJoined(SubSeq(names, 1, Len(names) - 1)) \o <<" ">> \o names[Len(names)]

CustomOf(self) == IF self.custom_attributes.some THEN self.custom_attributes.val ELSE <<>>

CustomAttrs(self) == [i \in 1..Len(CustomOf(self)) |-> Attr(CustomOf(self)[i][1], CustomOf(self)[i][2])]

Keyed(self, key) == Len(SelectSeq(CustomOf(self), LAMBDA kv : kv[1] = key))

\* C1: when body is present, to_html returns the opening tag with its
\* attributes, '>', the body text and the closing tag, and the rendering of no
\* child appears in it, however many children the element holds.
C1_BodyShortCircuits ==
    (pc = "rendered" /\ elem.body.some) =>
        /\ ret = partial_convert(elem) \o <<">">> \o elem.body.val
                    \o <<"<", "/">> \o html(elem.tag_type) \o <<">">>
        /\ \A i \in 1..ChildCount(elem) : ~Contains(ret, to_html(elem.children.val[i]))

C1_Witness ==
    /\ pc = "rendered"
    /\ elem.body = Some(<<>>)
    /\ ChildCount(elem) = 2
    /\ elem.children.val[1] # elem.children.val[2]

SameExcept(after, fields) ==
    \A f \in {"tag_type", "class_names", "id", "body", "children", "custom_attributes"} \ fields :
        after[f] = elem[f]

\* What add_attribute does to elem with the keys "class" and "id", and which
\* calls leave id alone.
SpecialKeys ==
    /\ \A value \in Values :
          LET after == add_attribute(elem, K_class, value)
          IN  /\ after.class_names = Append(elem.class_names, value)
              /\ SameExcept(after, {"class_names"})
    /\ \A value \in Values :
          /\ add_attribute(elem, K_id, value).id = Some(value)
          /\ SameExcept(add_attribute(elem, K_id, value), {"id"})
          /\ set_id(elem, value).id = Some(value)
          /\ SameExcept(set_id(elem, value), {"id"})
    /\ \A key \in AttrKeys, value \in Values :
          LET after == add_attribute(elem, key, value)
          IN  /\ Keyed(after, K_class) = Keyed(elem, K_class)
              /\ Keyed(after, K_id) = Keyed(elem, K_id)
              /\ key # K_id => after.id = elem.id
    /\ \A value \in Values :
          /\ add_class(elem, value).id = elem.id
          /\ set_style(elem, value).id = elem.id
          /\ set_href(elem, value).id = elem.id
    /\ \A body \in Bodies : set_body(elem, body).id = elem.id
    /\ \A child \in ChildElements : add_child(elem, child).id = elem.id
    /\ \A attributes \in AttrLists : add_custom(elem, attributes).id = elem.id

IdAttrs(rendered) == Occurrences(OpeningTag(rendered), <<" ", "i", "d", "=", "\"">>)

\* C7 as stated: add_attribute sends "class" to class_names and "id" to id
\* without touching custom_attributes, and to_html emits at most one id
\* attribute, carrying the value written last.
C7_AsStated ==
    pc \in {"built", "rendered"} =>
        /\ SpecialKeys
        /\ pc = "rendered" =>
              /\ IdAttrs(ret) <= 1
              /\ elem.id.some => Contains(OpeningTag(ret), Attr(K_id, elem.id.val))

\* C7 amended: add_attribute sends "class" to class_names and "id" to id (last
\* write wins) without touching custom_attributes and never adds a pair named
\* class or id to it; to_html emits one id attribute for the id field, right
\* after the tag name and carrying the value written last, and any further id
\* attribute is a pair named id that add_custom placed in custom_attributes.
C7_SpecialKeys ==
    pc \in {"built", "rendered"} =>
        /\ SpecialKeys
        /\ pc = "rendered" =>
              /\ IdAttrs(ret) = (IF elem.id.some THEN 1 ELSE 0) + Keyed(elem, K_id)
              /\ elem.id.some =>
                    SubSeq(ret, 1, Len(html(elem.tag_type)) + 1 + Len(Attr(K_id, elem.id.val)))
                        = <<"<">> \o html(elem.tag_type) \o Attr(K_id, elem.id.val)

C7_Witness ==
    /\ pc = "rendered"
    /\ elem.id = Some(<<"x">>)
    /\ Keyed(elem, K_id) = 1
    /\ Len(elem.class_names) = 2
    /\ IdAttrs(ret) = 2

AppendsTo(self, after, key, value) ==
    /\ after.custom_attributes = Some(Append(CustomOf(self), <<key, value>>))
    /\ \A f \in {"tag_type", "class_names", "id", "body", "children"} : after[f] = self[f]

\* C9: add_attribute with a key other than "class" and "id", set_style and
\* set_href append the pair at the end of custom_attributes even when the key is
\* already there (two calls with one key leave two pairs), and to_html emits
\* every pair, in call order.
C9_AppendNoDedup ==
    pc \in {"built", "rendered"} =>
        /\ \A first \in Values, second \in Values :
              LET once == add_attribute(elem, K_style, first)
                  twice == add_attribute(once, K_style, second)
              IN  /\ AppendsTo(elem, once, K_style, first)
                  /\ AppendsTo(once, twice, K_style, second)
                  /\ AppendsTo(elem, set_style(elem, first), K_style, first)
                  /\ AppendsTo(once, set_style(once, second), K_style, second)
                  /\ AppendsTo(elem, set_href(elem, first), K_href, first)
                  /\ AppendsTo(set_href(elem, first), set_href(set_href(elem, first), second),
                               K_href, second)
        /\ pc = "rendered" =>
              EndsWith(OpeningTag(ret), Flatten(CustomAttrs(elem)) \o <<">">>)

C9_Witness ==
    /\ pc = "rendered"
    /\ CustomOf(elem) = <<<<K_style, <<"x">>>>, <<K_style, <<"y">>>>>>
    /\ Contains(ret, Attr(K_style, <<"x">>) \o Attr(K_style, <<"y">>))

\* The markup of the two elements given to add_child, written out.
Markup(child) ==
    IF child = ChildP
    THEN <<"<", "p", ">", "h", "w", "<", "/", "p", ">">>
    ELSE <<"<", "s", "p", "a", "n", ">", "<", "p", ">", "h", "w", "<", "/", "p", ">",
           "<", "/", "s", "p", "a", "n", ">">>

ChildrenOf(self) == IF self.children.some THEN self.children.val ELSE <<>>

Mutations(self) ==
    {add_child(self, child) : child \in ChildElements}
        \cup {add_class(self, value) : value \in Values}
        \cup {set_body(self, body) : body \in Bodies}
        \cup {set_id(self, value) : value \in Values}
        \cup {set_style(self, value) : value \in Values}
        \cup {set_href(self, value) : value \in Values}
        \cup {add_attribute(self, key, value) : key \in AttrKeys, value \in Values}
        \cup {add_custom(self, attributes) : attributes \in AttrLists}

\* C14: the element's tag_type is the one it was constructed with, in every
\* state the mutators reach, and no mutator changes it or the tag_type of a
\* child the element already holds.
C14_KindNeverChanges ==
    pc \in {"built", "rendered"} =>
        /\ elem.tag_type = made
        /\ \A after \in Mutations(elem) :
              /\ after.tag_type = elem.tag_type
              /\ \A i \in 1..ChildCount(elem) :
                    after.children.val[i].tag_type = elem.children.val[i].tag_type

C14_Witness ==
    /\ pc = "built"
    /\ made = Known("Div")
    /\ elem.tag_type = Known("Div")
    /\ elem.children = Some(<<ChildP, ChildSpan>>)
    /\ elem.body.some
    /\ elem.id.some
    /\ Len(elem.class_names) = 2
    /\ AttrCount(elem) = 2

----------------------------------------------------------------------------
(* Properties of StyleSheet *)

SelectorOrder == <<<<".", "w">>, <<"h">>, <<"h", "1">>>>

PropertyOrder == <<<<"a", "b">>, <<"b">>>>

Line(selector, property) ==
    IF Latest(selector)[property].some
    THEN <<" ", " ", " ", " ">> \o property \o <<":", " ">>
             \o Latest(selector)[property].val \o <<";", "\n">>
    ELSE <<>>

Block(selector) ==
    IF written[selector].some
    THEN selector \o <<" ", "{", "\n">>
             \o Flatten([i \in 1..Len(PropertyOrder) |-> Line(selector, PropertyOrder[i])])
             \o <<"}", "\n">>
    ELSE <<>>

\* C12: whatever the order of the add_style and add_class calls,
\* get_style_sheet emits one block per selector written to, in sorted selector
\* order, and in each block one line per property, in sorted property order,
\* holding the value of the latest write for that selector and property.
C12_SortedLatestWrites ==
    pc = "styled" =>
        css = Flatten([i \in 1..Len(SelectorOrder) |-> Block(SelectorOrder[i])])

C12_Witness ==
    /\ pc = "styled"
    /\ \A selector \in Selectors : written[selector].some
    /\ Latest(<<"h">>)[<<"b">>] = Some(<<"y">>)
    /\ Latest(<<"h">>)[<<"a", "b">>] = Some(<<"x">>)
    /\ ~Latest(<<".", "w">>)[<<"b">>].some

----------------------------------------------------------------------------
(* Properties of the TagType ordering *)

DescendingTags(n) ==
    <<Known("Div"), Known("H1"), Known("H2"), Known("H3"), Known("H4"),
      Known("H5"), Known("H6"), Known("Img"), Custom(n), Known("A"),
      Known("Span"), Known("P")>>

\* C3: whatever the initial arrangement, sorting the twelve tags of
\* ordering_test and reversing yields Div, H1, ..., H6, Img, Custom, A, Span, P,
\* and sorting and reversing P, Div, Span, A yields Div, A, Span, P.
C3_SortThenReverse ==
    pc = "reversed" =>
        IF Len(tags) = 4
        THEN tags = <<Known("Div"), Known("A"), Known("Span"), Known("P")>>
        ELSE \E n \in CustomNames : tags = DescendingTags(n)

C3_Witness == pc = "reversed" /\ Len(tags) = 12 /\ swaps = 2

Position(ladder, kind) == CHOOSE i \in 1..Len(ladder) : ladder[i] = kind

OnLadder(ladder, kind) == \E i \in 1..Len(ladder) : ladder[i] = kind

LadderHolds(ladder) ==
    /\ (/\ OnLadder(ladder, lhs.kind)
        /\ OnLadder(ladder, rhs.kind)
        /\ Position(ladder, lhs.kind) < Position(ladder, rhs.kind))
            => ord = "Greater"
    /\ (lhs.kind = "Div" /\ rhs.kind \in {"A", "Span", "P"}) => ord = "Greater"

\* C4 as stated: the ladder from highest to lowest is
\* Custom > Img > H6 > H5 > H4 > H3 > H2 > H1 > Div, and Div is above A, Span, P.
C4_AsStated ==
    pc = "compared" =>
        LadderHolds(<<"Custom", "Img", "H6", "H5", "H4", "H3", "H2", "H1", "Div">>)

\* C4 amended: the ladder from highest to lowest is
\* Div > H1 > H2 > H3 > H4 > H5 > H6 > Img > Custom: each tag on it compares
\* greater than every tag to its right, and Div compares greater than A, Span, P.
C4_Ladder ==
    pc = "compared" =>
        LadderHolds(<<"Div", "H1", "H2", "H3", "H4", "H5", "H6", "Img", "Custom">>)

C4_Witness ==
    pc = "compared" /\ lhs.kind = "Img" /\ rhs.kind = "Custom" /\ ord = "Greater"

\* C5 as stated: every pair taken from A, Span, P compares equal (stated here
\* for pairs of different tags, the weakest reading).
C5_AsStated ==
    (/\ pc = "compared"
     /\ lhs.kind \in {"A", "Span", "P"}
     /\ rhs.kind \in {"A", "Span", "P"}
     /\ lhs # rhs)
        => ord = "Equal"

\* C5 amended: A, Span and P do not tie; distinct ones are strictly ordered
\* A > Span > P, in both directions of the comparison.
C5_StrictOrder ==
    LET low == <<"A", "Span", "P">>
    IN  (/\ pc = "compared"
         /\ OnLadder(low, lhs.kind)
         /\ OnLadder(low, rhs.kind)
         /\ lhs.kind # rhs.kind)
            => IF Position(low, lhs.kind) < Position(low, rhs.kind)
               THEN ord = "Greater" /\ rev = "Less"
               ELSE ord = "Less" /\ rev = "Greater"

C5_Witness ==
    pc = "compared" /\ lhs.kind = "A" /\ rhs.kind = "Span" /\ ord = "Greater"

\* C6: for distinct tags a and b, compare(a, b) is the converse of compare(b, a):
\* less exactly when the other direction is greater, equal exactly when equal.
C6_Converse ==
    (pc = "compared" /\ lhs # rhs) =>
        /\ ord = "Less" <=> rev = "Greater"
        /\ ord = "Greater" <=> rev = "Less"
        /\ ord = "Equal" <=> rev = "Equal"

\* C13: compare is reflexive: compare(a, a) = equal for every tag a.
C13_Reflexive == (pc = "compared" /\ lhs = rhs) => ord = "Equal"

----------------------------------------------------------------------------
(* Properties of TagType::from and TagType::html *)

KindOfName(s) ==
    CASE s = <<"p">> -> "P"
      [] s = <<"d", "i", "v">> -> "Div"
      [] s = <<"s", "p", "a", "n">> -> "Span"
      [] s = <<"a">> -> "A"
      [] s = <<"h", "1">> -> "H1"
      [] s = <<"h", "2">> -> "H2"
      [] s = <<"h", "3">> -> "H3"
      [] s = <<"h", "4">> -> "H4"
      [] s = <<"h", "5">> -> "H5"
      [] s = <<"h", "6">> -> "H6"
      [] s = <<"i", "m", "g">> -> "Img"
      [] s = <<"t", "a", "b", "l", "e">> -> "Table"
      [] s = <<"t", "r">> -> "Tr"
      [] s = <<"t", "d">> -> "Td"
      [] s = <<"t", "h">> -> "Th"

\* C10: fromName(s).htmlName() is lowercase(s); a known name in any letter case
\* maps to its known variant, any other name to Custom(lowercase(s)).
C10_RoundTrip ==
    LET lower == to_lowercase(name)
    IN  /\ pc \in {"from", "html"} =>
              IF lower \in KnownNames
              THEN tag = Known(KindOfName(lower))
              ELSE tag = Custom(lower)
        /\ pc = "html" => out = lower

C10_Witness ==
    /\ pc = "html"
    /\ name = <<"T", "a", "B", "l", "E">>
    /\ tag = Known("Table")
    /\ out = <<"t", "a", "b", "l", "e">>

====
